---- MODULE Spec2Model ----
(***************************************************************************)
(* Model of the CSG cell subsystem of src/src/cell.cpp: the region         *)
(* tokenizer, the shunting-yard compiler generate_rpn, the Cell            *)
(* constructor's region pipeline, the two containment evaluators,          *)
(* Cell::distance, the administrative C API (get_fill, set_fill,           *)
(* set_temperature), and the cell registry with its universe table         *)
(* (read_cells, extend_cells_c).                                           *)
(*                                                                         *)
(* Tokens are 32-bit integers exactly as in the source: an operand is a    *)
(* signed surface reference, an operator is one of five codes at the top   *)
(* of the int32 range.  Every comparison the source makes on token values  *)
(* (token < OP_UNION, token < OP_RIGHT_PAREN, token <= op, ...) is made on *)
(* the same values here.                                                   *)
(***************************************************************************)
EXTENDS Integers, Sequences, FiniteSets, TLC

----------------------------------------------------------------------------
(* Bounds of the explored input space.                                     *)

\* longest region string (in characters) given to the constructor in Spec
MaxSpecLen == 4
\* longest scanned token sequence given to the constructor in SpecRpn
MaxTokens == 5
\* longest scanned token sequence of a cell queried for containment
MaxQueryTokens == 4
\* longest scanned token sequence of a cell queried for its distance
MaxDistTokens == 3
\* number of surfaces in the global surface table
NSurf == 3
\* number of materials in the global material table
NMaterials == 1
\* longest list of material indices given to set_fill
MaxIndices == 2
\* largest number of temperatures of a cell, and largest instance given to
\* set_temperature
MaxInstances == 2
\* most cell elements of a geometry node
MaxCells == 2
\* most cells added by extend_cells_c
MaxExtend == 1

----------------------------------------------------------------------------
(* Operator codes (cell.h).  The source only relies on their order:        *)
(* operands < OP_UNION < OP_INTERSECTION < OP_COMPLEMENT < OP_RIGHT_PAREN  *)
(* < OP_LEFT_PAREN (cell.cpp:114,118,123,141,171).                         *)

OP_LEFT_PAREN == 2147483647
OP_RIGHT_PAREN == 2147483646
OP_COMPLEMENT == 2147483645
OP_INTERSECTION == 2147483644
OP_UNION == 2147483643

Abs(x) == IF x < 0 THEN -x ELSE x

\* std::copysign(mag, sgn) on integers converted to double: the sign of a
\* zero integer is positive.
CopySign(mag, sgn) == IF sgn < 0 THEN -Abs(mag) ELSE Abs(mag)

Last(s) == s[Len(s)]
Front(s) == SubSeq(s, 1, Len(s) - 1)

\* all sequences over S of length 0..n
SeqsUpTo(S, n) == UNION {[1..m -> S] : m \in 0..n}

----------------------------------------------------------------------------
(* tokenize, first pass (cell.cpp:47-83): characters to tokens.            *)

Digits == {"0", "1", "2", "3"}
DigitVal(c) == IF c = "0" THEN 0 ELSE IF c = "1" THEN 1 ELSE IF c = "2" THEN 2 ELSE 3
isdigit(c) == c \in Digits
isspace(c) == c = " "

\* first index j > i (0-based, as in the source) at which the digit run ends
RECURSIVE DigitRunEnd(_, _)
DigitRunEnd(region_spec, j) ==
  IF j < Len(region_spec) /\ isdigit(region_spec[j + 1])
  THEN DigitRunEnd(region_spec, j + 1)
  ELSE j

RECURSIVE DecimalValue(_)
DecimalValue(ds) ==
  IF Len(ds) = 0 THEN 0 ELSE 10 * DecimalValue(Front(ds)) + DigitVal(Last(ds))

\* std::stoi on a substring made of an optional sign and digits.  With no
\* digit after the sign stoi throws std::invalid_argument, which nothing
\* catches.
stoi(str) ==
  LET signed == str[1] \in {"-", "+"}
      ds == IF signed THEN Tail(str) ELSE str
  IN IF Len(ds) = 0 THEN [ok |-> FALSE, val |-> 0]
     ELSE [ok |-> TRUE,
           val |-> IF str[1] = "-" THEN -DecimalValue(ds) ELSE DecimalValue(ds)]

RECURSIVE ScanFrom(_, _, _)
ScanFrom(region_spec, i, tokens) ==
  IF ~(i < Len(region_spec)) THEN [kind |-> "ok", tokens |-> tokens]
  ELSE LET c == region_spec[i + 1] IN
    IF c = "(" THEN ScanFrom(region_spec, i + 1, Append(tokens, OP_LEFT_PAREN))
    ELSE IF c = ")" THEN ScanFrom(region_spec, i + 1, Append(tokens, OP_RIGHT_PAREN))
    ELSE IF c = "|" THEN ScanFrom(region_spec, i + 1, Append(tokens, OP_UNION))
    ELSE IF c = "~" THEN ScanFrom(region_spec, i + 1, Append(tokens, OP_COMPLEMENT))
    ELSE IF c = "-" \/ c = "+" \/ isdigit(c) THEN
      LET j == DigitRunEnd(region_spec, i + 1)
          v == stoi(SubSeq(region_spec, i + 1, j))
      IN IF v.ok THEN ScanFrom(region_spec, j, Append(tokens, v.val))
         ELSE [kind |-> "exception", tokens |-> tokens]
    ELSE IF isspace(c) THEN ScanFrom(region_spec, i + 1, tokens)
    ELSE [kind |-> "fatal", tokens |-> tokens]

----------------------------------------------------------------------------
(* tokenize, second pass (cell.cpp:85-96): implicit intersections.         *)

InsertAt(s, k, x) == SubSeq(s, 1, k) \o <<x>> \o SubSeq(s, k + 1, Len(s))

\* i is the 0-based loop index; the loop runs while i < tokens.size()-1.
RECURSIVE InsertFrom(_, _)
InsertFrom(tokens, i) ==
  IF ~(i < Len(tokens) - 1) THEN tokens
  ELSE LET left_compat == (tokens[i + 1] < OP_UNION) \/ (tokens[i + 1] = OP_RIGHT_PAREN)
           right_compat == (tokens[i + 2] < OP_UNION)
                           \/ (tokens[i + 2] = OP_LEFT_PAREN)
                           \/ (tokens[i + 2] = OP_COMPLEMENT)
       IN IF left_compat /\ right_compat
          THEN InsertFrom(InsertAt(tokens, i + 1, OP_INTERSECTION), i + 1)
          ELSE InsertFrom(tokens, i + 1)

\* tokens.size() is unsigned: on an empty vector tokens.size()-1 wraps to
\* the largest size_t, the loop is entered and tokens[0], tokens[1] are read
\* from a vector that owns no storage.  That read has no defined outcome; the
\* process does not get past it with a token sequence.
InsertIntersections(tokens) ==
  IF Len(tokens) = 0 THEN [kind |-> "crash", tokens |-> tokens]
  ELSE [kind |-> "ok", tokens |-> InsertFrom(tokens, 0)]

tokenize(region_spec) ==
  IF Len(region_spec) = 0 THEN [kind |-> "ok", tokens |-> <<>>]
  ELSE LET scanned == ScanFrom(region_spec, 0, <<>>)
       IN IF scanned.kind # "ok" THEN scanned
          ELSE InsertIntersections(scanned.tokens)

----------------------------------------------------------------------------
(* Surface-ID binder (cell.cpp:312-317).  surface_map is an unordered_map  *)
(* read with operator[]: a user id that names no surface yields the        *)
(* value-initialised index 0.  The surface table of the model lists the    *)
(* surfaces in the order of descending user id, so that the binding is not *)
(* the identity: user id u <= NSurf has index NSurf - u.                   *)

Surfaces == 1..NSurf

surface_map(user_id) ==
  IF user_id \in Surfaces THEN NSurf - user_id ELSE 0

\* the possible answers of the surfaces' sense(r, u) for one point
Senses == [Surfaces -> BOOLEAN]

RECURSIVE BindRegion(_)
BindRegion(region) ==
  IF Len(region) = 0 THEN <<>>
  ELSE LET r == Last(region)
       IN Append(BindRegion(Front(region)),
                 IF r < OP_UNION THEN CopySign(surface_map(Abs(r)) + 1, r) ELSE r)

----------------------------------------------------------------------------
(* generate_rpn (cell.cpp:107-183).                                        *)

\* OperatorYields without the precedence comparison: a binary operator pops
\* whatever operator is on top of the stack
OperatorYields_NoPrecedence(token, op) ==
  op < OP_RIGHT_PAREN /\ token # OP_COMPLEMENT

\* the test of the inner while loop, cell.cpp:123-125
OperatorYields(token, op) ==
  op < OP_RIGHT_PAREN
  /\ ((token = OP_COMPLEMENT /\ token < op) \/ (token # OP_COMPLEMENT /\ token <= op))

\* cell.cpp:120-137
RECURSIVE PopOperators(_, _, _)
PopOperators(token, rpn, stack) ==
  IF Len(stack) > 0 /\ OperatorYields(token, Last(stack))
  THEN PopOperators(token, Append(rpn, Last(stack)), Front(stack))
  ELSE [rpn |-> rpn, stack |-> stack]

\* What the read of *it can produce once the reverse iterator has reached
\* stack.rend(): the loop condition at cell.cpp:148 dereferences the iterator
\* before line 151 compares it with rend(), so the element before the
\* vector's storage is read.  The read either traps (the vector owns no
\* storage) or yields whatever int32 lies there.
OobReads ==
  {[trap |-> TRUE, val |-> 0],
   [trap |-> FALSE, val |-> 0],
   [trap |-> FALSE, val |-> OP_LEFT_PAREN]}

Fatal(cell_id) ==
  [kind |-> "fatal", msg |-> "MismatchedParentheses", cell |-> cell_id,
   rpn |-> <<>>, stack |-> <<>>]

\* cell.cpp:145-164.  The reverse iterator follows stack.back() while the
\* loop pops, so the loop test reads the current top of the stack.
RECURSIVE UnwindToLeftParen(_, _, _, _)
UnwindToLeftParen(cell_id, rpn, stack, oob) ==
  IF Len(stack) = 0 THEN
    IF oob.trap THEN
      [kind |-> "crash", msg |-> "", cell |-> cell_id, rpn |-> rpn, stack |-> stack]
    ELSE IF oob.val # OP_LEFT_PAREN THEN Fatal(cell_id)
    ELSE \* the loop ends and line 163 pops an empty vector
      [kind |-> "corrupt", msg |-> "", cell |-> cell_id, rpn |-> rpn, stack |-> stack]
  ELSE IF Last(stack) = OP_LEFT_PAREN THEN
    [kind |-> "ok", msg |-> "", cell |-> cell_id, rpn |-> rpn, stack |-> Front(stack)]
  ELSE UnwindToLeftParen(cell_id, Append(rpn, Last(stack)), Front(stack), oob)

\* cell.cpp:167-180
RECURSIVE DrainStack(_, _, _)
DrainStack(cell_id, rpn, stack) ==
  IF Len(stack) = 0 THEN
    [kind |-> "ok", msg |-> "", cell |-> cell_id, rpn |-> rpn, stack |-> stack]
  ELSE IF Last(stack) >= OP_RIGHT_PAREN THEN Fatal(cell_id)
  ELSE DrainStack(cell_id, Append(rpn, Last(stack)), Front(stack))

\* the for loop over the infix tokens, cell.cpp:113-165; k is the 1-based
\* position of the next token
RECURSIVE RpnFrom(_, _, _, _, _, _)
RpnFrom(cell_id, infix, k, rpn, stack, oob) ==
  IF k > Len(infix) THEN DrainStack(cell_id, rpn, stack)
  ELSE LET token == infix[k] IN
    IF token < OP_UNION THEN
      RpnFrom(cell_id, infix, k + 1, Append(rpn, token), stack, oob)
    ELSE IF token < OP_RIGHT_PAREN THEN
      LET p == PopOperators(token, rpn, stack)
      IN RpnFrom(cell_id, infix, k + 1, p.rpn, Append(p.stack, token), oob)
    ELSE IF token = OP_LEFT_PAREN THEN
      RpnFrom(cell_id, infix, k + 1, rpn, Append(stack, token), oob)
    ELSE
      LET u == UnwindToLeftParen(cell_id, rpn, stack, oob)
      IN IF u.kind = "ok" THEN RpnFrom(cell_id, infix, k + 1, u.rpn, u.stack, oob)
         ELSE u

generate_rpn(cell_id, infix, oob) == RpnFrom(cell_id, infix, 1, <<>>, <<>>, oob)

\* the simple flag, cell.cpp:323-330
IsSimple(rpn) ==
  ~ \E k \in 1..Len(rpn) : rpn[k] = OP_COMPLEMENT \/ rpn[k] = OP_UNION

----------------------------------------------------------------------------
(* Cell::contains_simple (cell.cpp:514-534).  sense[i] is what             *)
(* global_surfaces[i-1]->sense(r, u) returns for the queried point.        *)

RECURSIVE SimpleFrom(_, _, _, _)

\* SimpleFrom without the branch for the opposite side of on_surface
SimpleFrom_NoOpposite(tokens, k, sense, on_surface) ==
  IF k > Len(tokens) THEN TRUE
  ELSE LET token == tokens[k] IN
    IF token < OP_UNION THEN
      IF token = on_surface THEN SimpleFrom(tokens, k + 1, sense, on_surface)
      ELSE IF sense[Abs(token)] # (token > 0) THEN FALSE
      ELSE SimpleFrom(tokens, k + 1, sense, on_surface)
    ELSE SimpleFrom(tokens, k + 1, sense, on_surface)

SimpleFrom(tokens, k, sense, on_surface) ==
  IF k > Len(tokens) THEN TRUE
  ELSE LET token == tokens[k] IN
    IF token < OP_UNION THEN
      IF token = on_surface THEN SimpleFrom(tokens, k + 1, sense, on_surface)
      ELSE IF -token = on_surface THEN FALSE
      ELSE IF sense[Abs(token)] # (token > 0) THEN FALSE
      ELSE SimpleFrom(tokens, k + 1, sense, on_surface)
    ELSE SimpleFrom(tokens, k + 1, sense, on_surface)

contains_simple(tokens, sense, on_surface) == SimpleFrom(tokens, 1, sense, on_surface)

----------------------------------------------------------------------------
(* Cell::contains_complex (cell.cpp:538-585).  The boolean array           *)
(* stack[0..rpn.size()-1] is kept as the sequence stk of its entries       *)
(* 0..i_stack; i_stack is the source's index and may fall below 0, in      *)
(* which case the source reads and writes stack[-1], stack[-2], ... below  *)
(* the array.  oob records that such an access happened.  What those bytes *)
(* hold is arbitrary, but no value read from them reaches the return       *)
(* value: i_stack moves by one, so an entry stack[j] with j >= 0 is always *)
(* written in bounds (by the push or the operator that brought i_stack to  *)
(* j) after the last time i_stack was below j, and only such entries are   *)
(* read in bounds.  The entries below 0 are therefore not kept.            *)

ComplexStart == [stk |-> <<>>, i_stack |-> -1, oob |-> FALSE]

\* one iteration of the loop at cell.cpp:546-574
ComplexStep(st, token, sense, on_surface) ==
  IF token = OP_UNION \/ token = OP_INTERSECTION THEN
    IF st.i_stack >= 1 THEN
      LET a == st.stk[st.i_stack]
          b == st.stk[st.i_stack + 1]
      IN [stk |-> Append(SubSeq(st.stk, 1, st.i_stack - 1),
                         IF token = OP_UNION THEN a \/ b ELSE a /\ b),
          i_stack |-> st.i_stack - 1,
          oob |-> st.oob]
    ELSE [stk |-> <<>>, i_stack |-> st.i_stack - 1, oob |-> TRUE]
  ELSE IF token = OP_COMPLEMENT THEN
    IF st.i_stack >= 0 THEN
      [stk |-> Append(Front(st.stk), ~Last(st.stk)),
       i_stack |-> st.i_stack,
       oob |-> st.oob]
    ELSE [stk |-> <<>>, i_stack |-> st.i_stack, oob |-> TRUE]
  ELSE
    LET decision ==
          IF token = on_surface THEN TRUE
          ELSE IF -token = on_surface THEN FALSE
          ELSE sense[Abs(token)] = (token > 0)
    IN IF st.i_stack + 1 >= 0 THEN
         [stk |-> Append(st.stk, decision), i_stack |-> st.i_stack + 1, oob |-> st.oob]
       ELSE [stk |-> <<>>, i_stack |-> st.i_stack + 1, oob |-> TRUE]

RECURSIVE ComplexRun(_, _, _, _)
ComplexRun(tokens, n, sense, on_surface) ==
  IF n = 0 THEN ComplexStart
  ELSE ComplexStep(ComplexRun(tokens, n - 1, sense, on_surface), tokens[n],
                   sense, on_surface)

\* the return statement, cell.cpp:576-584
ComplexReturn(st) == IF st.i_stack = 0 THEN st.stk[1] ELSE TRUE

Bool2Str(b) == IF b THEN "true" ELSE "false"

\* the returned boolean, and whether the call accessed memory below stack[]
contains_complex(tokens, sense, on_surface) ==
  LET st == ComplexRun(tokens, Len(tokens), sense, on_surface)
  IN [val |-> ComplexReturn(st), oob |-> st.oob]

----------------------------------------------------------------------------
(* Cell::distance (cell.cpp:406-431).  Distances are doubles in the        *)
(* source; the model takes them from a grid of integers, compares them     *)
(* exactly, and writes the relative test |d - min_dist| / min_dist >=      *)
(* FP_PRECISION without the division, with FP_PRECISION the ratio          *)
(* FP_PRECISION_NUM / FP_PRECISION_DEN.  INFTY (constants.h) is the        *)
(* largest finite distance, what a surface reports when the ray does not   *)
(* meet it.                                                                *)

INFTY == 1000000
INT32_MAX == 2147483647
FP_PRECISION_NUM == 1
FP_PRECISION_DEN == 10

\* the distances a surface can report: three within or at the tolerance of
\* one another, and no crossing
Dists == {90, 95, 100, INFTY}

DistanceStart == [min_dist |-> INFTY, i_surf |-> INT32_MAX]

\* the test at cell.cpp:422 without the tolerance test of line 423
Displaces_NoTolerance(d, min_dist) == d < min_dist

\* the tolerance test of cell.cpp:423 without the test d < min_dist
Displaces_NoLess(d, min_dist) ==
  Abs(d - min_dist) * FP_PRECISION_DEN >= FP_PRECISION_NUM * min_dist

\* the two nested tests at cell.cpp:422-423
Displaces(d, min_dist) ==
  /\ d < min_dist
  /\ Abs(d - min_dist) * FP_PRECISION_DEN >= FP_PRECISION_NUM * min_dist

\* one iteration of the loop at cell.cpp:412-428; d is what the token's
\* surface reports
DistanceStep(st, token, d) ==
  IF token >= OP_UNION THEN st
  ELSE IF Displaces(d, st.min_dist) THEN [min_dist |-> d, i_surf |-> -token]
  ELSE st

----------------------------------------------------------------------------
(* The administrative C API (cell.cpp:629-712).  A cell of the registry is *)
(* a record of the fields the API reads or writes, plus translation and    *)
(* rotation, which it must leave alone.  Material indices are stored       *)
(* 0-based, MATERIAL_VOID standing for "void".                             *)

FILL_MATERIAL == 1
FILL_UNIVERSE == 2
FILL_LATTICE == 3
MATERIAL_VOID == -1
C_NONE == -1
OPENMC_E_OUT_OF_BOUNDS == -3
K_BOLTZMANN == 4

\* the material indices global_materials holds, 0-based
Materials == 0..(NMaterials - 1)

\* std::sqrt on the values the model stores: exact roots
sqrt(x) == CHOOSE r \in 0..x : r * r = x

\* the material loop of set_fill (cell.cpp:660-671): the list built from
\* indices[0..n-1], and whether an index was out of bounds; the loop returns
\* at the first such index with what it has pushed so far
RECURSIVE PushMaterials(_, _, _)
PushMaterials(material, indices, i) ==
  IF i > Len(indices) THEN [material |-> material, ok |-> TRUE]
  ELSE LET i_mat == indices[i] IN
    IF i_mat = MATERIAL_VOID THEN
      PushMaterials(Append(material, MATERIAL_VOID), indices, i + 1)
    ELSE IF i_mat >= 1 /\ i_mat <= NMaterials THEN
      PushMaterials(Append(material, i_mat - 1), indices, i + 1)
    ELSE [material |-> material, ok |-> FALSE]

\* openmc_cell_set_fill (cell.cpp:650-683): the registry after the call and
\* the returned code
openmc_cell_set_fill(cells, index, type, indices) ==
  IF index >= 1 /\ index <= Len(cells) THEN
    LET c == cells[index] IN
      IF type = FILL_MATERIAL THEN
        LET p == PushMaterials(<<>>, indices, 1)
            c2 == [c EXCEPT !.type = FILL_MATERIAL, !.material = p.material]
        IN [cells |-> [cells EXCEPT ![index] = c2],
            ret |-> IF p.ok THEN 0 ELSE OPENMC_E_OUT_OF_BOUNDS,
            msg |-> IF p.ok THEN "" ELSE "Index in materials array is out of bounds."]
      ELSE IF type = FILL_UNIVERSE THEN
        [cells |-> [cells EXCEPT ![index] = [c EXCEPT !.type = FILL_UNIVERSE]],
         ret |-> 0, msg |-> ""]
      ELSE
        [cells |-> [cells EXCEPT ![index] = [c EXCEPT !.type = FILL_LATTICE]],
         ret |-> 0, msg |-> ""]
  ELSE [cells |-> cells, ret |-> OPENMC_E_OUT_OF_BOUNDS,
        msg |-> "Index in cells array is out of bounds."]

\* openmc_cell_set_temperature (cell.cpp:686-712); instance is a sequence
\* of at most one integer, empty for a null pointer
openmc_cell_set_temperature(cells, index, T, instance) ==
  IF index >= 1 /\ index <= Len(cells) THEN
    LET c == cells[index] IN
      IF Len(instance) > 0 THEN
        IF instance[1] >= 0 /\ instance[1] < Len(c.sqrtkT) THEN
          [cells |-> [cells EXCEPT ![index] =
                        [c EXCEPT !.sqrtkT[instance[1] + 1] = sqrt(K_BOLTZMANN * T)]],
           ret |-> 0, msg |-> ""]
        ELSE [cells |-> cells, ret |-> OPENMC_E_OUT_OF_BOUNDS,
              msg |-> "Distribcell instance is out of bounds."]
      ELSE
        [cells |-> [cells EXCEPT ![index] =
                      [c EXCEPT !.sqrtkT =
                         [k \in 1..Len(c.sqrtkT) |-> sqrt(K_BOLTZMANN * T)]]],
         ret |-> 0, msg |-> ""]
  ELSE [cells |-> cells, ret |-> OPENMC_E_OUT_OF_BOUNDS,
        msg |-> "Index in cells array is out of bounds."]

\* openmc_cell_get_fill (cell.cpp:629-648): the returned code and the
\* values left in *type, *indices (the n integers it points to) and *n
openmc_cell_get_fill(cells, index) ==
  IF index >= 1 /\ index <= Len(cells) THEN
    LET c == cells[index] IN
      IF c.type = FILL_MATERIAL
      THEN [ret |-> 0, type |-> c.type, indices |-> c.material,
            n |-> Len(c.material), msg |-> ""]
      ELSE [ret |-> 0, type |-> c.type, indices |-> <<c.fill>>, n |-> 1, msg |-> ""]
  ELSE [ret |-> OPENMC_E_OUT_OF_BOUNDS, type |-> 0, indices |-> <<>>, n |-> 0,
        msg |-> "Index in cells array is out of bounds."]

----------------------------------------------------------------------------
(* State.                                                                  *)

VARIABLES
  pc,           \* "xml": cell element read, constructor not yet run;
                \* "ready": constructed; "fatal": fatal_error was called;
                \* "crash": the process ended without a fatal_error message;
                \* "loaded": the geometry is loaded, the registry is in use;
                \* "geometry": read_cells has not yet read the geometry node
  id,           \* Cell::id
  region_spec,  \* the region attribute, a sequence of characters
  region,       \* Cell::region, the bound infix tokens
  rpn,          \* Cell::rpn
  simple,       \* Cell::simple
  err,          \* the message of fatal_error, if it was called
  q_sense,      \* containment query: what each surface's sense(r, u) returns
  q_on_surface, \* containment query: the on_surface argument
  in_simple,    \* what contains_simple returned, "none" before the query
  in_complex,   \* what contains_complex returned, "none" before the query
  complex_oob,  \* contains_complex accessed memory below its stack array
  inside,       \* what Cell::contains returned, "none" before the query
  d_pc,         \* Cell::distance: "idle", "loop" (inside the for loop), "done"
  d_dist,       \* what each surface's distance(r, u, false) returns
  d_coinc,      \* what the surface of on_surface returns for distance(r, u, true)
  d_on_surface, \* the on_surface argument of Cell::distance
  d_pos,        \* number of postfix tokens the loop has consumed
  min_dist,     \* the local min_dist
  i_surf,       \* the local i_surf
  d_held,       \* the positions of the operands that set min_dist, in order
  global_cells, \* the registry, as the administrative API sees it
  call,         \* the last administrative call: its arguments and results
  geometry,     \* the cell elements of the geometry node given to read_cells
  n_cells,      \* the global n_cells
  global_universes, \* the universe table: records of id and cells
  universe_map  \* universe id -> position in global_universes (0-based)

cellVars == <<pc, id, region_spec, region, rpn, simple, err>>

queryVars == <<q_sense, q_on_surface, in_simple, in_complex, complex_oob, inside>>

distVars == <<d_pc, d_dist, d_coinc, d_on_surface, d_pos, min_dist, i_surf, d_held>>

vars == <<pc, id, region_spec, region, rpn, simple, err,
          q_sense, q_on_surface, in_simple, in_complex, complex_oob, inside,
          d_pc, d_dist, d_coinc, d_on_surface, d_pos, min_dist, i_surf, d_held,
          global_cells, call, geometry, n_cells, global_universes, universe_map>>

registryVars == <<geometry, n_cells, global_universes, universe_map>>

adminVars == <<global_cells, call, geometry, n_cells, global_universes, universe_map>>

\* an unordered_map with no entry
EmptyMap == [k \in {} |-> 0]

NoError == [msg |-> "", cell |-> 0]

NoCall ==
  [op |-> "none", index |-> 0, type |-> 0, indices |-> <<>>, T |-> 0,
   instance |-> <<>>, ret |-> 0, msg |-> "", out_type |-> 0, out_indices |-> <<>>,
   out_n |-> 0]

----------------------------------------------------------------------------
(* Inputs.                                                                 *)

CellIds == {1, 6}

\* every character class tokenize distinguishes, "x" standing for the
\* characters it rejects
Chars == {"(", ")", "|", "~", "-", "+", "0", "1", "2", " ", "x"}

\* the tokens a scan of a region string over surfaces 1 and 2 can yield
RawSymbols == {1, 2, OP_UNION, OP_COMPLEMENT, OP_LEFT_PAREN, OP_RIGHT_PAREN}

\* the text of one token, as Cell::to_hdf5 writes it (cell.cpp:452-466)
TokenText(token) ==
  IF token = OP_LEFT_PAREN THEN <<"(">>
  ELSE IF token = OP_RIGHT_PAREN THEN <<")">>
  ELSE IF token = OP_COMPLEMENT THEN <<"~">>
  ELSE IF token = OP_UNION THEN <<"|">>
  ELSE IF token = 1 THEN <<"1">>
  ELSE IF token = 2 THEN <<"2">>
  ELSE IF token = -1 THEN <<"-", "1">>
  ELSE IF token = -2 THEN <<"-", "2">>
  ELSE IF token = 3 THEN <<"3">>
  ELSE <<"0">>

\* a region string whose scan yields the given tokens: the token texts, each
\* preceded by a blank
RECURSIVE RegionText(_)
RegionText(tokens) ==
  IF Len(tokens) = 0 THEN <<>>
  ELSE RegionText(Front(tokens)) \o <<" ">> \o TokenText(Last(tokens))

----------------------------------------------------------------------------
(* Cell::Cell, the region pipeline (cell.cpp:302-330): tokenize, bind the  *)
(* surface ids, compile to postfix, classify.                              *)

CellCtor ==
  /\ pc = "xml"
  /\ LET t == tokenize(region_spec) IN
       IF t.kind = "fatal" THEN
         /\ pc' = "fatal"
         /\ err' = [msg |-> "InvalidCharacter", cell |-> 0]
         /\ UNCHANGED <<region, rpn, simple>>
       ELSE IF t.kind # "ok" THEN
         /\ pc' = "crash"
         /\ UNCHANGED <<region, rpn, simple, err>>
       ELSE \E oob \in OobReads :
         LET bound == BindRegion(t.tokens)
             g == generate_rpn(id, bound, oob)
         IN /\ region' = bound
            /\ IF g.kind = "ok" THEN
                 /\ pc' = "ready"
                 /\ rpn' = g.rpn
                 /\ simple' = IsSimple(g.rpn)
                 /\ err' = err
               ELSE IF g.kind = "fatal" THEN
                 /\ pc' = "fatal"
                 /\ err' = [msg |-> g.msg, cell |-> g.cell]
                 /\ UNCHANGED <<rpn, simple>>
               ELSE
                 /\ pc' = "crash"
                 /\ UNCHANGED <<rpn, simple, err>>
  /\ UNCHANGED <<id, region_spec>>
  /\ UNCHANGED <<queryVars, distVars, adminVars>>

\* A cell element as read_cells hands it to the constructor
\* (cell.cpp:602-604).
CellElement(cell_ids, spec_text) ==
  /\ pc = "xml"
  /\ id \in cell_ids
  /\ region_spec = spec_text
  /\ region = <<>>
  /\ rpn = <<>>
  /\ simple = TRUE
  /\ err = NoError
  /\ q_sense = [i \in Surfaces |-> FALSE]
  /\ q_on_surface = 0
  /\ in_simple = "none"
  /\ in_complex = "none"
  /\ complex_oob = FALSE
  /\ inside = "none"
  /\ d_pc = "idle"
  /\ d_dist = [i \in Surfaces |-> INFTY]
  /\ d_coinc = INFTY
  /\ d_on_surface = 0
  /\ d_pos = 0
  /\ min_dist = INFTY
  /\ i_surf = INT32_MAX
  /\ d_held = <<>>
  /\ global_cells = <<>>
  /\ call = NoCall
  /\ geometry = <<>>
  /\ n_cells = 0
  /\ global_universes = <<>>
  /\ universe_map = EmptyMap

\* the on_surface arguments: none, either side of each surface, and a
\* surface no region of the model refers to
OnSurfaces == {0, NSurf + 1} \cup {i : i \in Surfaces} \cup {-i : i \in Surfaces}

\* A containment query on a constructed cell: contains_simple and
\* contains_complex applied to the same point, and Cell::contains
\* (cell.cpp:394-402), which returns the one the simple flag selects.
Contains ==
  /\ pc = "ready"
  /\ inside = "none"
  /\ \E s \in Senses, o \in OnSurfaces :
       LET c == contains_complex(rpn, s, o) IN
         /\ q_sense' = s
         /\ q_on_surface' = o
         /\ in_simple' = Bool2Str(contains_simple(rpn, s, o))
         /\ in_complex' = Bool2Str(c.val)
         /\ complex_oob' = c.oob
         /\ inside' = Bool2Str(IF simple THEN contains_simple(rpn, s, o) ELSE c.val)
  /\ UNCHANGED <<cellVars, distVars, adminVars>>

\* the on_surface arguments of the distance queries: none, an operand of the
\* model's regions, the other side of one
DistOnSurfaces == {0, 1, 2}

\* global_surfaces[i-1]->distance(r, u, coincident)
SurfaceDistance(i, coincident) == IF coincident THEN d_coinc ELSE d_dist[i]

\* Cell::distance is called (cell.cpp:406-410)
DistanceCall ==
  /\ pc = "ready"
  /\ d_pc = "idle"
  /\ \E dist \in [Surfaces -> Dists], o \in DistOnSurfaces :
       \E c \in (IF o \in {rpn[k] : k \in 1..Len(rpn)} THEN Dists ELSE {INFTY}) :
         /\ d_dist' = dist
         /\ d_on_surface' = o
         /\ d_coinc' = c
  /\ d_pc' = "loop"
  /\ d_pos' = 0
  /\ min_dist' = DistanceStart.min_dist
  /\ i_surf' = DistanceStart.i_surf
  /\ d_held' = <<>>
  /\ UNCHANGED <<cellVars, queryVars, adminVars>>

\* one iteration of the loop (cell.cpp:412-428)
DistanceIter ==
  /\ d_pc = "loop"
  /\ d_pos < Len(rpn)
  /\ LET token == rpn[d_pos + 1]
         coincident == (token = d_on_surface)
         d == IF token >= OP_UNION THEN INFTY
              ELSE SurfaceDistance(Abs(token), coincident)
         st == DistanceStep([min_dist |-> min_dist, i_surf |-> i_surf], token, d)
     IN /\ min_dist' = st.min_dist
        /\ i_surf' = st.i_surf
        /\ d_held' = IF st = [min_dist |-> min_dist, i_surf |-> i_surf]
                     THEN d_held ELSE Append(d_held, d_pos + 1)
  /\ d_pos' = d_pos + 1
  /\ UNCHANGED <<d_pc, d_dist, d_coinc, d_on_surface>>
  /\ UNCHANGED <<cellVars, queryVars, adminVars>>

\* the return statement (cell.cpp:430)
DistanceReturn ==
  /\ d_pc = "loop"
  /\ d_pos = Len(rpn)
  /\ d_pc' = "done"
  /\ UNCHANGED <<d_dist, d_coinc, d_on_surface, d_pos, min_dist, i_surf, d_held>>
  /\ UNCHANGED <<cellVars, queryVars, adminVars>>

\* region attributes of up to MaxSpecLen characters
Init ==
  \E spec_text \in SeqsUpTo(Chars, MaxSpecLen) : CellElement(CellIds, spec_text)

Next == CellCtor

Spec == Init /\ [][Next]_vars

\* region attributes written as up to MaxTokens blank-separated tokens
InitRpn ==
  \E raw \in SeqsUpTo(RawSymbols, MaxTokens) : CellElement(CellIds, RegionText(raw))

SpecRpn == InitRpn /\ [][Next]_vars

\* the tokens of the regions on which containment is queried; 0 is the id
\* of no surface
QuerySymbols == {0, 1, -2, OP_UNION, OP_COMPLEMENT, OP_LEFT_PAREN, OP_RIGHT_PAREN}

InitQuery ==
  \E raw \in SeqsUpTo(QuerySymbols, MaxQueryTokens) : CellElement({1}, RegionText(raw))

NextQuery == CellCtor \/ Contains

SpecQuery == InitQuery /\ [][NextQuery]_vars

\* the tokens of the regions on which the distance is queried
DistSymbols == {1, -2, 3, OP_UNION}

InitDistance ==
  \E raw \in SeqsUpTo(DistSymbols, MaxDistTokens) : CellElement({1}, RegionText(raw))

NextDistance == CellCtor \/ DistanceCall \/ DistanceIter \/ DistanceReturn

SpecDistance == InitDistance /\ [][NextDistance]_vars

----------------------------------------------------------------------------
(* The administrative API on a loaded geometry.                            *)

\* the cell indices the callers pass: one below and one above the valid ones
ApiCellIndices == 0..(Len(global_cells) + 1)
\* the material indices the callers pass: void, 0, the valid 1..NMaterials
\* and one above
ApiMaterials == {MATERIAL_VOID} \cup (0..(NMaterials + 1))
ApiFillTypes == {FILL_MATERIAL, FILL_UNIVERSE, FILL_LATTICE}
\* the temperatures the callers set, in the unit in which K_BOLTZMANN is 4
ApiTemperatures == {1, 4}
\* the instance argument: a null pointer or a pointer to 0..MaxInstances
ApiInstances == {<<>>} \cup {<<k>> : k \in 0..MaxInstances}

SetFill ==
  /\ pc = "loaded"
  /\ \E index \in ApiCellIndices, type \in ApiFillTypes,
        indices \in SeqsUpTo(ApiMaterials, MaxIndices) :
       /\ type # FILL_MATERIAL => indices = <<>>
       /\ LET r == openmc_cell_set_fill(global_cells, index, type, indices)
          IN /\ global_cells' = r.cells
             /\ call' = [NoCall EXCEPT !.op = "set_fill", !.index = index,
                                       !.type = type, !.indices = indices,
                                       !.ret = r.ret, !.msg = r.msg]
  /\ UNCHANGED <<cellVars, queryVars, distVars, registryVars>>

SetTemperature ==
  /\ pc = "loaded"
  /\ \E index \in ApiCellIndices, T \in ApiTemperatures, instance \in ApiInstances :
       LET r == openmc_cell_set_temperature(global_cells, index, T, instance)
       IN /\ global_cells' = r.cells
          /\ call' = [NoCall EXCEPT !.op = "set_temperature", !.index = index,
                                    !.T = T, !.instance = instance,
                                    !.ret = r.ret, !.msg = r.msg]
  /\ UNCHANGED <<cellVars, queryVars, distVars, registryVars>>

GetFill ==
  /\ pc = "loaded"
  /\ \E index \in ApiCellIndices :
       LET r == openmc_cell_get_fill(global_cells, index)
       IN call' = [NoCall EXCEPT !.op = "get_fill", !.index = index,
                                 !.ret = r.ret, !.msg = r.msg,
                                 !.out_type = r.type, !.out_indices = r.indices,
                                 !.out_n = r.n]
  /\ UNCHANGED global_cells
  /\ UNCHANGED <<cellVars, queryVars, distVars, registryVars>>

\* the cells a loaded geometry can hold: a material cell with one or two
\* materials and any number of temperatures up to MaxInstances (cell.cpp:
\* 253-300 checks only that a cell with temperatures has a material), or a
\* cell filled with universe 0, with or without a translation and rotation
NoRotation == <<>>
NoTranslation == <<0, 0, 0>>

LoadedCells ==
  {[type |-> FILL_MATERIAL, material |-> m, sqrtkT |-> [k \in 1..n |-> sqrt(K_BOLTZMANN * 0)],
    fill |-> C_NONE, translation |-> NoTranslation, rotation |-> NoRotation] :
      m \in {<<0>>, <<MATERIAL_VOID, 0>>}, n \in 0..MaxInstances}
  \cup
  {[type |-> FILL_UNIVERSE, material |-> <<>>, sqrtkT |-> <<>>,
    fill |-> 0, translation |-> t, rotation |-> NoRotation] :
      t \in {NoTranslation, <<1, 0, 0>>}}

InitAdmin ==
  /\ pc = "loaded"
  /\ id = 1
  /\ region_spec = <<>>
  /\ region = <<>>
  /\ rpn = <<>>
  /\ simple = TRUE
  /\ err = NoError
  /\ q_sense = [i \in Surfaces |-> FALSE]
  /\ q_on_surface = 0
  /\ in_simple = "none"
  /\ in_complex = "none"
  /\ complex_oob = FALSE
  /\ inside = "none"
  /\ d_pc = "idle"
  /\ d_dist = [i \in Surfaces |-> INFTY]
  /\ d_coinc = INFTY
  /\ d_on_surface = 0
  /\ d_pos = 0
  /\ min_dist = INFTY
  /\ i_surf = INT32_MAX
  /\ d_held = <<>>
  /\ \E c \in LoadedCells : global_cells = <<c>>
  /\ call = NoCall
  /\ geometry = <<>>
  /\ n_cells = 1
  /\ global_universes = <<[id |-> 0, cells |-> <<0>>]>>
  /\ universe_map = (0 :> 0)

NextAdmin == SetFill \/ SetTemperature \/ GetFill

SpecAdmin == InitAdmin /\ [][NextAdmin]_vars

----------------------------------------------------------------------------
(* Cell::Cell, the whole constructor (cell.cpp:211-390), on an XML cell    *)
(* element.  An element is a record with one field per attribute: <<>>     *)
(* when the attribute is absent, <<value>> when it is present.  Texts are  *)
(* sequences of characters, arrays are sequences of values.                *)

check_for_node(node, attr) == Len(node[attr]) > 0
get_node_value(node, attr) == node[attr][1]

\* the text "void" of a material entry
Void == <<"v", "o", "i", "d">>

\* the material loop (cell.cpp:258-264)
ReadMaterials(mats) ==
  [k \in 1..Len(mats) |->
     IF mats[k] = Void THEN MATERIAL_VOID ELSE stoi(mats[k]).val]

\* std::cos and std::sin of an angle given in degrees, on multiples of 90
Cos(deg) == IF deg % 360 = 0 THEN 1 ELSE IF deg % 360 = 180 THEN -1 ELSE 0
Sin(deg) == IF deg % 360 = 90 THEN 1 ELSE IF deg % 360 = 270 THEN -1 ELSE 0

\* the three angles followed by the rotation matrix (cell.cpp:366-388)
RotationOf(rot) ==
  LET phi == -rot[1]
      theta == -rot[2]
      psi == -rot[3]
  IN <<rot[1], rot[2], rot[3],
       Cos(theta) * Cos(psi),
       -Cos(phi) * Sin(psi) + Sin(phi) * Sin(theta) * Cos(psi),
       Sin(phi) * Sin(psi) + Cos(phi) * Sin(theta) * Cos(psi),
       Cos(theta) * Sin(psi),
       Cos(phi) * Cos(psi) + Sin(phi) * Sin(theta) * Sin(psi),
       -Sin(phi) * Cos(psi) + Cos(phi) * Sin(theta) * Sin(psi),
       -Sin(theta),
       Sin(phi) * Cos(theta),
       Cos(phi) * Cos(theta)>>

\* a cell as `new Cell()` leaves it (cell.cpp:757): the vectors are empty,
\* the scalar members id, type, universe, fill and simple hold whatever the
\* allocation held, given here as the record uninit
DefaultCell(uninit) ==
  [id |-> uninit.id, name |-> <<>>, type |-> uninit.type,
   universe |-> uninit.universe, fill |-> uninit.fill,
   material |-> <<>>, sqrtkT |-> <<>>, region |-> <<>>, rpn |-> <<>>,
   simple |-> uninit.simple, translation |-> NoTranslation, rotation |-> NoRotation]

\* the values an unassigned member can hold
UninitializedTypes == {0, FILL_MATERIAL}

Uninitialized ==
  [id : {0, 1}, type : UninitializedTypes, universe : {0, 1}, fill : {0, 1},
   simple : BOOLEAN]

CellFatal(msg, cell_id) ==
  [kind |-> "fatal", msg |-> msg, cell_id |-> cell_id, cell |-> <<>>]

CellCrash == [kind |-> "crash", msg |-> "", cell_id |-> 0, cell |-> <<>>]

\* Cell::Cell(cell_node): the fatal errors in the order of the source, then
\* the constructed cell.  The constructor assigns id, universe, fill and
\* simple before anything reads them, and no value to the member type, which
\* keeps the value uninit_type the allocation held.
Cell_Cell(cell_node, uninit_type, oob) ==
  LET cell_id == stoi(get_node_value(cell_node, "id")).val
      fill_present == check_for_node(cell_node, "fill")
      material_present == check_for_node(cell_node, "material")
      fill == IF fill_present THEN stoi(get_node_value(cell_node, "fill")).val
              ELSE C_NONE
      material == IF material_present
                  THEN ReadMaterials(get_node_value(cell_node, "material"))
                  ELSE <<>>
      temperature_present == check_for_node(cell_node, "temperature")
      temps == IF temperature_present THEN get_node_value(cell_node, "temperature")
               ELSE <<>>
      spec_text == IF check_for_node(cell_node, "region")
                   THEN get_node_value(cell_node, "region") ELSE <<>>
      t == tokenize(spec_text)
      bound == BindRegion(t.tokens)
      g == generate_rpn(cell_id, bound, oob)
      translation_present == check_for_node(cell_node, "translation")
      rotation_present == check_for_node(cell_node, "rotation")
  IN IF ~check_for_node(cell_node, "id") THEN
       CellFatal("Must specify id of cell in geometry XML file.", 0)
     ELSE IF ~(fill_present \/ material_present) THEN
       CellFatal("Neither material nor fill was specified for cell", cell_id)
     ELSE IF fill_present /\ material_present THEN
       CellFatal("has both a material and a fill specified", cell_id)
     ELSE IF material_present /\ Len(material) = 0 THEN
       CellFatal("An empty material element was specified for cell", cell_id)
     ELSE IF temperature_present /\ Len(material) = 0 THEN
       CellFatal("was specified with a temperature but no material", cell_id)
     ELSE IF temperature_present /\ \E k \in 1..Len(temps) : temps[k] < 0 THEN
       CellFatal("was specified with a negative temperature", cell_id)
     ELSE IF t.kind = "fatal" THEN CellFatal("InvalidCharacter", 0)
     ELSE IF t.kind # "ok" THEN CellCrash
     ELSE IF g.kind = "fatal" THEN CellFatal(g.msg, g.cell)
     ELSE IF g.kind # "ok" THEN CellCrash
     ELSE IF translation_present /\ fill = C_NONE THEN
       CellFatal("Cannot apply a translation to cell", cell_id)
     ELSE IF translation_present
             /\ Len(get_node_value(cell_node, "translation")) # 3 THEN
       CellFatal("Non-3D translation vector applied to cell", cell_id)
     ELSE IF rotation_present /\ fill = C_NONE THEN
       CellFatal("Cannot apply a rotation to cell", cell_id)
     ELSE IF rotation_present /\ Len(get_node_value(cell_node, "rotation")) # 3 THEN
       CellFatal("Non-3D rotation vector applied to cell", cell_id)
     ELSE
       [kind |-> "ok", msg |-> "", cell_id |-> cell_id,
        cell |->
          [id |-> cell_id,
           name |-> IF check_for_node(cell_node, "name")
                    THEN get_node_value(cell_node, "name") ELSE <<>>,
           type |-> uninit_type,
           universe |-> IF check_for_node(cell_node, "universe")
                        THEN stoi(get_node_value(cell_node, "universe")).val
                        ELSE 0,
           fill |-> fill,
           material |-> material,
           sqrtkT |-> [k \in 1..Len(temps) |-> sqrt(K_BOLTZMANN * temps[k])],
           region |-> bound,
           rpn |-> g.rpn,
           simple |-> IsSimple(g.rpn),
           translation |-> IF translation_present
                           THEN get_node_value(cell_node, "translation")
                           ELSE NoTranslation,
           rotation |-> IF rotation_present
                        THEN RotationOf(get_node_value(cell_node, "rotation"))
                        ELSE NoRotation]]

----------------------------------------------------------------------------
(* read_cells (cell.cpp:591-623) and extend_cells_c (cell.cpp:753-760).    *)

\* the constructor loop of read_cells (cell.cpp:602-604): the cells pushed,
\* until a constructor ends the process
RECURSIVE PushCells(_, _, _, _, _)
PushCells(cells, nodes, k, types, oob) ==
  IF k > Len(nodes) THEN [kind |-> "ok", msg |-> "", cell_id |-> 0, cells |-> cells]
  ELSE LET c == Cell_Cell(nodes[k], types[k], oob) IN
    IF c.kind = "ok" THEN PushCells(Append(cells, c.cell), nodes, k + 1, types, oob)
    ELSE [kind |-> c.kind, msg |-> c.msg, cell_id |-> c.cell_id, cells |-> cells]

\* the universe loop of read_cells (cell.cpp:606-618); i is the 0-based
\* loop index, which is also the cell index stored in the universe
RECURSIVE PopulateUniverses(_, _, _, _)
PopulateUniverses(cells, i, universes, map) ==
  IF ~(i < Len(cells)) THEN [universes |-> universes, map |-> map]
  ELSE LET uid == cells[i + 1].universe IN
    IF uid \notin DOMAIN map THEN
      PopulateUniverses(cells, i + 1,
                        Append(universes, [id |-> uid, cells |-> <<i>>]),
                        map @@ (uid :> Len(universes)))
    ELSE
      PopulateUniverses(cells, i + 1,
                        [universes EXCEPT ![map[uid] + 1].cells = Append(@, i)],
                        map)

\* read_cells on the geometry node
ReadCells ==
  /\ pc = "geometry"
  /\ n_cells' = n_cells + Len(geometry)
  /\ IF n_cells' = 0 THEN
       /\ pc' = "fatal"
       /\ err' = [msg |-> "No cells found in geometry.xml!", cell |-> 0]
       /\ UNCHANGED <<global_cells, global_universes, universe_map>>
     ELSE \E types \in [1..Len(geometry) -> UninitializedTypes], oob \in OobReads :
       \E p \in {PushCells(global_cells, geometry, 1, types, oob)} :
       \E u \in {PopulateUniverses(p.cells, 0, global_universes, universe_map)} :
          /\ global_cells' = p.cells
          /\ IF p.kind = "ok" THEN
               /\ pc' = "loaded"
               /\ err' = err
               /\ global_universes' = u.universes
               /\ universe_map' = u.map
             ELSE
               /\ pc' = p.kind
               /\ err' = IF p.kind = "fatal"
                         THEN [msg |-> p.msg, cell |-> p.cell_id] ELSE err
               /\ UNCHANGED <<global_universes, universe_map>>
  /\ UNCHANGED <<id, region_spec, region, rpn, simple>>
  /\ UNCHANGED <<queryVars, distVars, call, geometry>>

\* extend_cells_c(n)
ExtendCells ==
  /\ pc = "loaded"
  /\ \E n \in 1..MaxExtend :
       /\ Len(global_cells) + n <= MaxCells + MaxExtend
       /\ \E uninit \in [1..n -> Uninitialized] :
            global_cells' = global_cells \o [k \in 1..n |-> DefaultCell(uninit[k])]
  /\ n_cells' = Len(global_cells')
  /\ UNCHANGED <<cellVars, queryVars, distVars>>
  /\ UNCHANGED <<call, geometry, global_universes, universe_map>>

\* a geometry node not yet read
Geometry(nodes) ==
  /\ pc = "geometry"
  /\ id = 0
  /\ region_spec = <<>>
  /\ region = <<>>
  /\ rpn = <<>>
  /\ simple = TRUE
  /\ err = NoError
  /\ q_sense = [i \in Surfaces |-> FALSE]
  /\ q_on_surface = 0
  /\ in_simple = "none"
  /\ in_complex = "none"
  /\ complex_oob = FALSE
  /\ inside = "none"
  /\ d_pc = "idle"
  /\ d_dist = [i \in Surfaces |-> INFTY]
  /\ d_coinc = INFTY
  /\ d_on_surface = 0
  /\ d_pos = 0
  /\ min_dist = INFTY
  /\ i_surf = INT32_MAX
  /\ d_held = <<>>
  /\ global_cells = <<>>
  /\ call = NoCall
  /\ geometry = nodes
  /\ n_cells = 0
  /\ global_universes = <<>>
  /\ universe_map = EmptyMap

\* an attribute that is absent, or present with one of the given values
Optional(values) == {<<>>} \cup {<<v>> : v \in values}

\* the cell elements whose fill, material, temperature and transforms the
\* constructor reads: every attribute absent or present, lists of one and two
\* entries, a negative temperature, vectors of two and three entries
LoadNodes ==
  [id : Optional({<<"1">>}),
   name : {<<>>},
   universe : {<<>>},
   fill : Optional({<<"0">>}),
   material : Optional({<<>>, <<<<"1">>>>, <<Void, <<"1">>>>}),
   temperature : Optional({<<0>>, <<0, 1>>, <<-1>>}),
   region : {<<>>},
   translation : Optional({<<1, 0, 0>>, <<1, 0>>}),
   rotation : Optional({<<0, 0, 90>>, <<0, 0>>})]

InitLoad == \E node \in LoadNodes : Geometry(<<node>>)

NextLoad == ReadCells \/ SetFill \/ SetTemperature \/ GetFill

SpecLoad == InitLoad /\ [][NextLoad]_vars

\* the cell elements of a geometry with several universes: material cells
\* of universe 0 (by default or by name) and of universe 1
RegistryNodes ==
  [id : {<<<<"1">>>>},
   name : {<<>>},
   universe : Optional({<<"0">>, <<"1">>}),
   fill : {<<>>},
   material : {<<<<<<"1">>>>>>},
   temperature : {<<>>},
   region : {<<>>},
   translation : {<<>>},
   rotation : {<<>>}]

InitRegistry == \E nodes \in SeqsUpTo(RegistryNodes, MaxCells) : Geometry(nodes)

NextRegistry == ReadCells \/ ExtendCells

SpecRegistry == InitRegistry /\ [][NextRegistry]_vars

----------------------------------------------------------------------------
(* Reference semantics of an infix region, used by the properties below:   *)
(* a recursive-descent reading of                                          *)
(*     E ::= T (UNION T)*    T ::= F (INTERSECTION F)*                     *)
(*     F ::= COMPLEMENT F | LEFT_PAREN E RIGHT_PAREN | operand             *)
(* that yields the truth value of the region for a given sense assignment. *)

ParseFail == [ok |-> FALSE, next |-> 0, val |-> FALSE]

RECURSIVE ParseE(_, _, _), ParseERest(_, _, _, _), ParseT(_, _, _),
          ParseTRest(_, _, _, _), ParseF(_, _, _)

ParseF(toks, k, sense) ==
  IF k > Len(toks) THEN ParseFail
  ELSE IF toks[k] < OP_UNION THEN
    [ok |-> TRUE, next |-> k + 1, val |-> (sense[Abs(toks[k])] = (toks[k] > 0))]
  ELSE IF toks[k] = OP_COMPLEMENT THEN
    LET f == ParseF(toks, k + 1, sense)
    IN IF f.ok THEN [ok |-> TRUE, next |-> f.next, val |-> ~f.val] ELSE ParseFail
  ELSE IF toks[k] = OP_LEFT_PAREN THEN
    LET e == ParseE(toks, k + 1, sense)
    IN IF e.ok /\ e.next <= Len(toks) /\ toks[e.next] = OP_RIGHT_PAREN
       THEN [ok |-> TRUE, next |-> e.next + 1, val |-> e.val]
       ELSE ParseFail
  ELSE ParseFail

ParseTRest(toks, k, sense, acc) ==
  IF k <= Len(toks) /\ toks[k] = OP_INTERSECTION THEN
    LET f == ParseF(toks, k + 1, sense)
    IN IF f.ok THEN ParseTRest(toks, f.next, sense, acc /\ f.val) ELSE ParseFail
  ELSE [ok |-> TRUE, next |-> k, val |-> acc]

ParseT(toks, k, sense) ==
  LET f == ParseF(toks, k, sense)
  IN IF f.ok THEN ParseTRest(toks, f.next, sense, f.val) ELSE ParseFail

ParseERest(toks, k, sense, acc) ==
  IF k <= Len(toks) /\ toks[k] = OP_UNION THEN
    LET t == ParseT(toks, k + 1, sense)
    IN IF t.ok THEN ParseERest(toks, t.next, sense, acc \/ t.val) ELSE ParseFail
  ELSE [ok |-> TRUE, next |-> k, val |-> acc]

ParseE(toks, k, sense) ==
  LET t == ParseT(toks, k, sense)
  IN IF t.ok THEN ParseERest(toks, t.next, sense, t.val) ELSE ParseFail

ValidInfix(toks) ==
  LET e == ParseE(toks, 1, [i \in Surfaces |-> TRUE])
  IN e.ok /\ e.next = Len(toks) + 1

InfixValue(toks, sense) == ParseE(toks, 1, sense).val

IsOperand(t) == t < OP_UNION

\* parenthesis depth after the first n tokens
RECURSIVE ParenDepth(_, _)
ParenDepth(toks, n) ==
  IF n = 0 THEN 0
  ELSE ParenDepth(toks, n - 1)
       + (IF toks[n] = OP_LEFT_PAREN THEN 1
          ELSE IF toks[n] = OP_RIGHT_PAREN THEN -1 ELSE 0)

Balanced(toks) ==
  /\ \A n \in 0..Len(toks) : ParenDepth(toks, n) >= 0
  /\ ParenDepth(toks, Len(toks)) = 0

Constructed == pc # "xml"

----------------------------------------------------------------------------
(* C1: for every syntactically valid infix region the constructor          *)
(* succeeds and the postfix, run through the boolean stack of              *)
(* contains_complex without override, has for every sense assignment the   *)
(* value of the infix read with COMPLEMENT > INTERSECTION > UNION; and     *)
(* A | B C compiles to A B C INTERSECTION UNION, ~(A | B) to               *)
(* A B UNION COMPLEMENT.                                                   *)

C1_UnionOfIntersection ==
  (/\ Len(region) = 5
   /\ IsOperand(region[1]) /\ region[2] = OP_UNION /\ IsOperand(region[3])
   /\ region[4] = OP_INTERSECTION /\ IsOperand(region[5]))
  => rpn = <<region[1], region[3], region[5], OP_INTERSECTION, OP_UNION>>

C1_ComplementOfUnion ==
  (/\ Len(region) = 6
   /\ region[1] = OP_COMPLEMENT /\ region[2] = OP_LEFT_PAREN
   /\ IsOperand(region[3]) /\ region[4] = OP_UNION /\ IsOperand(region[5])
   /\ region[6] = OP_RIGHT_PAREN)
  => rpn = <<region[3], region[5], OP_UNION, OP_COMPLEMENT>>

----------------------------------------------------------------------------
(* C2: a region whose parentheses do not balance never yields a postfix:   *)
(* the constructor ends in the fatal error "Mismatched parentheses ... for *)
(* cell <id>".                                                             *)

C2_UnbalancedIsFatal ==
  (Constructed /\ ~Balanced(region))
  => /\ pc = "fatal"
     /\ err = [msg |-> "MismatchedParentheses", cell |-> id]

----------------------------------------------------------------------------
(* C10: the postfix of every cell that was constructed is well formed: the *)
(* boolean stack never underflows and ends with exactly one entry, and the *)
(* postfix is empty only when the infix is.                                *)

WellFormedRpn(tokens) ==
  LET st == ComplexRun(tokens, Len(tokens), [i \in Surfaces |-> TRUE], 0)
  IN /\ \A n \in 0..Len(tokens) :
          ~ComplexRun(tokens, n, [i \in Surfaces |-> TRUE], 0).oob
     /\ st.i_stack = 0

C10_RpnWellFormed ==
  pc = "ready"
  => IF Len(region) = 0 THEN Len(rpn) = 0 ELSE WellFormedRpn(rpn)

----------------------------------------------------------------------------
(* C3: on a cell whose simple flag is set, contains_simple and             *)
(* contains_complex return the same boolean for every sense assignment and *)
(* every on_surface.                                                       *)

Queried == pc = "ready" /\ inside # "none"

C3_SimpleAgreesWithComplex ==
  (Queried /\ simple) => in_complex = in_simple

----------------------------------------------------------------------------
(* C4: in both evaluators the decision for an operand s is "satisfied"     *)
(* when on_surface = s, "unsatisfied" when on_surface = -s, and otherwise  *)
(* sense = (s > 0); no operand of a compiled region is zero, so            *)
(* on_surface = 0 overrides nothing.                                       *)

C4_Decision(s, sense, on_surface) ==
  IF on_surface = s THEN TRUE
  ELSE IF on_surface = -s THEN FALSE
  ELSE sense[Abs(s)] = (s > 0)

OperandPositions(tokens) == {k \in 1..Len(tokens) : IsOperand(tokens[k])}

\* contains_simple reaches the operand at k: every earlier operand passed
C4_SimpleReaches(k) ==
  \A j \in OperandPositions(rpn) :
    j < k => C4_Decision(rpn[j], q_sense, q_on_surface)

C4_SimpleDecides ==
  /\ \A k \in OperandPositions(rpn) :
       (C4_SimpleReaches(k) /\ ~C4_Decision(rpn[k], q_sense, q_on_surface))
       => in_simple = "false"
  /\ (\A k \in OperandPositions(rpn) : C4_Decision(rpn[k], q_sense, q_on_surface))
     => in_simple = "true"

\* every operand step of contains_complex pushes the operand's decision
C4_ComplexDecides ==
  /\ \A k \in OperandPositions(rpn) :
       LET before == ComplexRun(rpn, k - 1, q_sense, q_on_surface)
           after == ComplexRun(rpn, k, q_sense, q_on_surface)
       IN /\ after.i_stack = before.i_stack + 1
          /\ after.i_stack >= 0
             => /\ Len(after.stk) = after.i_stack + 1
                /\ Last(after.stk) = C4_Decision(rpn[k], q_sense, q_on_surface)
  /\ (Len(rpn) = 1 /\ IsOperand(rpn[1]))
     => in_complex = Bool2Str(C4_Decision(rpn[1], q_sense, q_on_surface))

C4_OnSurfaceOverride ==
  /\ pc = "ready" => \A k \in OperandPositions(rpn) : rpn[k] # 0
  /\ Queried => (C4_SimpleDecides /\ C4_ComplexDecides)

\* a query in which the particle is on the opposite side of an operand's
\* surface although sense() puts it on the operand's side
C4_Witness ==
  /\ Queried
  /\ simple
  /\ \E k \in OperandPositions(rpn) :
       /\ rpn[k] = -q_on_surface
       /\ q_sense[Abs(rpn[k])] = (rpn[k] > 0)
       /\ C4_SimpleReaches(k)
  /\ in_simple = "false"
  /\ in_complex = "false"

----------------------------------------------------------------------------
(* Cell::distance: properties of the returned pair.                        *)

DistanceDone == pc = "ready" /\ d_pc = "done"

\* what the surface of the operand at position k reported to the loop
OperandDistance(k) == SurfaceDistance(Abs(rpn[k]), rpn[k] = d_on_surface)

\* a and b differ by less than FP_PRECISION relative to the larger of them
WithinTolerance(a, b) ==
  Abs(a - b) * FP_PRECISION_DEN
    < FP_PRECISION_NUM * (IF a > b THEN a ELSE b)

(* C5 as claimed: min_distance is at most the distance of every referenced *)
(* surface and is the distance of the surface named by i_surf (when no     *)
(* surface is crossed i_surf is INT32_MAX and names none).                 *)
C5_MinBelowEverySurface ==
  DistanceDone
  => /\ \A k \in OperandPositions(rpn) : min_dist <= OperandDistance(k)
     /\ i_surf # INT32_MAX
        => \E k \in OperandPositions(rpn) :
             i_surf = -rpn[k] /\ OperandDistance(k) = min_dist

(* C5, amended: min_distance exceeds no referenced surface's distance by a *)
(* relative FP_PRECISION or more, and is the distance of the surface named *)
(* by i_surf.                                                              *)
C5_MinBelowEverySurfaceWithinTolerance ==
  DistanceDone
  => /\ \A k \in OperandPositions(rpn) :
          \/ min_dist <= OperandDistance(k)
          \/ (min_dist - OperandDistance(k)) * FP_PRECISION_DEN
               < FP_PRECISION_NUM * min_dist
     /\ i_surf # INT32_MAX
        => \E k \in OperandPositions(rpn) :
             i_surf = -rpn[k] /\ OperandDistance(k) = min_dist

\* a distance query in which a later operand is nearer than the returned
\* one, within the tolerance
C5_Witness ==
  /\ DistanceDone
  /\ i_surf # INT32_MAX
  /\ \E k \in OperandPositions(rpn) : OperandDistance(k) < min_dist

(* C6 as claimed: of two operands whose distances are within the relative  *)
(* tolerance of each other, the later one is never the one returned.       *)
C6_EarlierWinsEveryTie ==
  DistanceDone
  => \A j, k \in OperandPositions(rpn) :
       (j < k /\ WithinTolerance(OperandDistance(j), OperandDistance(k)))
       => ~(d_held # <<>> /\ Last(d_held) = k)

(* C6, amended: the tie is decided against the running minimum.  An        *)
(* operand takes the minimum over only if it is nearer than the operand    *)
(* holding it (or than INFTY) and not within the tolerance of it, so the   *)
(* returned operand is strictly nearer than every operand before it; with  *)
(* two operands the earlier one wins every tie.                            *)
C6_HolderWinsTie ==
  /\ \A n \in 1..Len(d_held) :
       /\ d_held[n] \in OperandPositions(rpn)
       /\ LET before == IF n = 1 THEN INFTY ELSE OperandDistance(d_held[n - 1])
          IN /\ OperandDistance(d_held[n]) < before
             /\ ~WithinTolerance(OperandDistance(d_held[n]), before)
       /\ \A j \in OperandPositions(rpn) :
            j < d_held[n] => OperandDistance(d_held[n]) < OperandDistance(j)
  /\ DistanceDone
     => /\ d_held # <<>> => (i_surf = -rpn[Last(d_held)]
                             /\ min_dist = OperandDistance(Last(d_held)))
        /\ \A j, k \in OperandPositions(rpn) :
             (/\ Cardinality(OperandPositions(rpn)) = 2
              /\ j < k
              /\ WithinTolerance(OperandDistance(j), OperandDistance(k)))
             => ~(d_held # <<>> /\ Last(d_held) = k)

\* two operands tie and the earlier one is returned
C6_Witness ==
  /\ DistanceDone
  /\ \E j, k \in OperandPositions(rpn) :
       /\ j < k
       /\ OperandDistance(k) < OperandDistance(j)
       /\ WithinTolerance(OperandDistance(j), OperandDistance(k))
       /\ d_held # <<>>
       /\ Last(d_held) = j
       /\ i_surf = -rpn[j]

----------------------------------------------------------------------------
(* The administrative API: properties of a call, read off the step that    *)
(* executes it (call' holds the call's arguments and results).             *)

Addressed(cells, index) == index >= 1 /\ index <= Len(cells)

(* C7: a set_fill or set_temperature call that returns                     *)
(* OPENMC_E_OUT_OF_BOUNDS leaves the fill kind, the material list and the  *)
(* temperature list of the addressed cell as they were.                    *)
C7_StepKeepsCellOnError ==
  (/\ call'.op \in {"set_fill", "set_temperature"}
   /\ call'.ret = OPENMC_E_OUT_OF_BOUNDS)
  => /\ Len(global_cells') = Len(global_cells)
     /\ Addressed(global_cells, call'.index)
        => /\ global_cells'[call'.index].type = global_cells[call'.index].type
           /\ global_cells'[call'.index].material = global_cells[call'.index].material
           /\ global_cells'[call'.index].sqrtkT = global_cells[call'.index].sqrtkT

C7_ErrorLeavesCellUnchanged == [][C7_StepKeepsCellOnError]_vars

(* C8: every index at the API is 1-based: cell indices 1..n are the valid  *)
(* ones; after a successful set_fill(index, MATERIAL, ids), get_fill(index) *)
(* returns MATERIAL and the same ids; set_temperature(index, T, k) sets    *)
(* exactly the k-th temperature counted from 1 and rejects k = 0.          *)
C8_CellIndexOneBased ==
  call'.op \in {"set_fill", "set_temperature", "get_fill"}
  => /\ call'.ret = 0 => Addressed(global_cells, call'.index)
     /\ ~Addressed(global_cells, call'.index) => call'.ret = OPENMC_E_OUT_OF_BOUNDS

C8_FillRoundTrip ==
  (call'.op = "set_fill" /\ call'.ret = 0 /\ call'.type = FILL_MATERIAL)
  => LET g == openmc_cell_get_fill(global_cells', call'.index)
     IN g.ret = 0 /\ g.type = FILL_MATERIAL /\ g.n = Len(call'.indices)
        /\ g.indices = call'.indices

C8_InstanceOneBased ==
  (call'.op = "set_temperature" /\ Len(call'.instance) > 0)
  => LET k == call'.instance[1]
         before == global_cells[call'.index].sqrtkT
         after == global_cells'[call'.index].sqrtkT
     IN /\ k = 0 => call'.ret = OPENMC_E_OUT_OF_BOUNDS
        /\ call'.ret = 0
           => /\ k \in 1..Len(before)
              /\ Len(after) = Len(before)
              /\ after[k] = sqrt(K_BOLTZMANN * call'.T)
              /\ \A j \in 1..Len(before) : j # k => after[j] = before[j]

C8_IndicesOneBased ==
  [][C8_CellIndexOneBased /\ C8_FillRoundTrip /\ C8_InstanceOneBased]_vars

(* C9: a successful set_fill that moves a cell from MATERIAL to UNIVERSE   *)
(* or LATTICE leaves it with an empty material list and does not touch     *)
(* translation and rotation.                                               *)
C9_StepLeavingMaterial ==
  (/\ call'.op = "set_fill"
   /\ call'.ret = 0
   /\ global_cells[call'.index].type = FILL_MATERIAL
   /\ call'.type \in {FILL_UNIVERSE, FILL_LATTICE})
  => /\ global_cells'[call'.index].type = call'.type
     /\ global_cells'[call'.index].material = <<>>
     /\ global_cells'[call'.index].translation = global_cells[call'.index].translation
     /\ global_cells'[call'.index].rotation = global_cells[call'.index].rotation

C9_LeavingMaterialClearsList == [][C9_StepLeavingMaterial]_vars

----------------------------------------------------------------------------
(* The cell invariants on the registry.                                    *)

(* C11: in every state of a constructed cell, after construction and after *)
(* any sequence of set_fill and set_temperature calls, the temperature     *)
(* list is empty or as long as the material list.                          *)
C11_TemperaturesMatchMaterials ==
  pc = "loaded"
  => \A k \in 1..Len(global_cells) :
       \/ Len(global_cells[k].sqrtkT) = 0
       \/ Len(global_cells[k].sqrtkT) = Len(global_cells[k].material)

\* the 0-based cell indices of the registry
CellIndices == 0..(Len(global_cells) - 1)

\* the position in the cell list at which a universe id is first seen
FirstSeen(uid) ==
  CHOOSE i \in CellIndices :
    /\ global_cells[i + 1].universe = uid
    /\ \A j \in CellIndices : global_cells[j + 1].universe = uid => i <= j

\* every cell index is listed once, in the universe of the cell's universe id
EveryCellInItsUniverse ==
  \A i \in CellIndices :
    \E u \in 1..Len(global_universes) :
      /\ global_universes[u].id = global_cells[i + 1].universe
      /\ \E k \in 1..Len(global_universes[u].cells) :
           /\ global_universes[u].cells[k] = i
           /\ \A v \in 1..Len(global_universes) :
                \A l \in 1..Len(global_universes[v].cells) :
                  global_universes[v].cells[l] = i => (v = u /\ l = k)

\* the universes are those of the cells, each once, in the order in which
\* their ids are first seen in the cell list
UniversesInFirstSeenOrder ==
  /\ {global_universes[u].id : u \in 1..Len(global_universes)}
       = {global_cells[i + 1].universe : i \in CellIndices}
  /\ \A u, v \in 1..Len(global_universes) :
       u < v => /\ global_universes[u].id # global_universes[v].id
                /\ FirstSeen(global_universes[u].id) < FirstSeen(global_universes[v].id)

\* inside a universe the cell indices are in insertion order
CellsInInsertionOrder ==
  \A u \in 1..Len(global_universes) :
    \A k, l \in 1..Len(global_universes[u].cells) :
      k < l => global_universes[u].cells[k] < global_universes[u].cells[l]

(* C12: after read_cells and any number of extend_cells_c calls the        *)
(* universe table is consistent with the cell list: every cell index is in *)
(* exactly one universe's cell list, that of the universe whose id is the  *)
(* cell's universe id; universes are in first-seen order of their ids; the *)
(* cell indices of a universe are in insertion order.                      *)
C12_UniverseTableConsistent ==
  pc = "loaded"
  => /\ EveryCellInItsUniverse
     /\ UniversesInFirstSeenOrder
     /\ CellsInInsertionOrder

----------------------------------------------------------------------------
(* The tokenizer on operator-free input.  A whitespace-separated list of   *)
(* signed integers is read here word by word, independently of the scan.   *)

\* length of the run of non-blank characters at the head of s
RECURSIVE RunLength(_)
RunLength(s) ==
  IF Len(s) = 0 \/ s[1] = " " THEN 0 ELSE 1 + RunLength(Tail(s))

\* the maximal runs of non-blank characters of s, in order
RECURSIVE WordsOf(_)
WordsOf(s) ==
  IF Len(s) = 0 THEN <<>>
  ELSE IF s[1] = " " THEN WordsOf(Tail(s))
  ELSE LET n == RunLength(s)
       IN <<SubSeq(s, 1, n)>> \o WordsOf(SubSeq(s, n + 1, Len(s)))

Unsigned(w) == IF Len(w) > 0 /\ w[1] \in {"-", "+"} THEN Tail(w) ELSE w

\* an optional sign followed by at least one digit
IsSignedInteger(w) ==
  /\ Len(Unsigned(w)) > 0
  /\ \A k \in 1..Len(Unsigned(w)) : Unsigned(w)[k] \in Digits

RECURSIVE NumeralValue(_, _)
NumeralValue(ds, acc) ==
  IF Len(ds) = 0 THEN acc
  ELSE NumeralValue(Tail(ds), 10 * acc + DigitVal(ds[1]))

IntegerOf(w) ==
  IF w[1] = "-" THEN -NumeralValue(Unsigned(w), 0) ELSE NumeralValue(Unsigned(w), 0)

IsIntegerList(s) ==
  \A k \in 1..Len(WordsOf(s)) : IsSignedInteger(WordsOf(s)[k])

IntegersOf(s) == [k \in 1..Len(WordsOf(s)) |-> IntegerOf(WordsOf(s)[k])]

\* the operands with one OP_INTERSECTION between each consecutive pair
Interleaved(operands) ==
  [k \in 1..(2 * Len(operands) - 1) |->
     IF k % 2 = 1 THEN operands[(k + 1) \div 2] ELSE OP_INTERSECTION]

(* C13: for a region string that is a list of n >= 0 signed integers       *)
(* separated, and possibly preceded or followed, by whitespace, tokenize   *)
(* returns the n operands in order with one OP_INTERSECTION between each   *)
(* consecutive pair and nothing else; for n = 0 (an empty or whitespace-   *)
(* only string) it returns the empty sequence; the implicit-intersection   *)
(* pass reads no position outside the token sequence, so the constructor   *)
(* goes on to bind and compile those tokens.                               *)
C13_IntegerListTokenized ==
  (pc # "xml" /\ IsIntegerList(region_spec))
  => /\ tokenize(region_spec) =
          [kind |-> "ok", tokens |-> Interleaved(IntegersOf(region_spec))]
     /\ pc = "ready"
     /\ region = BindRegion(Interleaved(IntegersOf(region_spec)))

====
